---- MODULE Spec2Model ----
(***************************************************************************)
(* Model of the change-detection and archival core of incremental-backup:  *)
(* the archive writers (completo.py / incremental.py), the reference store *)
(* (last_backup_date.txt), the per-source orchestrations and the two run   *)
(* entry points run_full_backup_process / run_incremental_backup_process.  *)
(*                                                                         *)
(* Time is counted in clock ticks (time.time()); a file's st_mtime is the  *)
(* tick of its last modification.                                          *)
(***************************************************************************)
EXTENDS Integers, Sequences, FiniteSets, TLC

(***************************************************************************)
(* Bounds of the model                                                     *)
(***************************************************************************)
\* the clock (time.time()) at the start of a behaviour, and how far it advances
FirstTick == 9
MaxTicks == 2
\* highest st_mtime and reference timestamp handed to an orchestration in SpecOrch
MaxStamp == 3
\* longest file list handed to an archive writer in SpecZip
MaxZipFiles == 5
\* longest empty-directory list handed to crear_zip_completo in SpecZip
MaxZipDirs == 1
\* longest catalogue of one source in SpecOrch
MaxCatalog == 2
\* longest 'origenes' list of a configuration
MaxSources == 2
\* most sources of one run of the thread-pool dispatcher in SpecPool
MaxPoolSources == 4
\* most files and directories below the root of a tree in SpecWalk
MaxNodes == 3
\* longest foreign text found in last_backup_date.txt in SpecRef
MaxRefLen == 2

(***************************************************************************)
(* Generic helpers                                                         *)
(***************************************************************************)
Range(s) == {s[i] : i \in DOMAIN s}

Min(S) == CHOOSE x \in S : \A y \in S : x <= y

\* the elements of a set of numbers in increasing order
RECURSIVE Ordenar(_)
Ordenar(S) == IF S = {} THEN <<>> ELSE <<Min(S)>> \o Ordenar(S \ {Min(S)})

\* how many times x occurs in the sequence s
Count(s, x) == Cardinality({i \in DOMAIN s : s[i] = x})

\* Python's None
None == "None"

\* an optional list argument: NoList is the default None, AList(l) a list
NoList == <<>>

AList(l) == <<l>>

(***************************************************************************)
(* Reference store: last_backup_date.txt                                   *)
(***************************************************************************)
Digits == <<"0", "1", "2", "3", "4", "5", "6", "7", "8", "9">>

DigitValue(c) == CHOOSE d \in 0..9 : Digits[d + 1] = c

IsDigit(c) == \E d \in 0..9 : Digits[d + 1] = c

\* str(timestamp): the decimal text of a clock value
RECURSIVE PyStr(_)
PyStr(n) ==
    IF n < 10 THEN <<Digits[n + 1]>>
    ELSE PyStr(n \div 10) \o <<Digits[(n % 10) + 1]>>

LastTick == FirstTick + MaxTicks

\* float("inf"): larger than every clock value; datetime.fromtimestamp rejects it
Infinity == LastTick + 1

RECURSIVE DecimalValue(_, _)
DecimalValue(text, acc) ==
    IF text = <<>> THEN acc
    ELSE DecimalValue(Tail(text), 10 * acc + DigitValue(Head(text)))

\* float(text) succeeds: otherwise it raises ValueError
ParsesAsFloat(text) ==
    \/ text = <<"i", "n", "f">>
    \/ text # <<>> /\ \A i \in DOMAIN text : IsDigit(text[i])

\* float(text), for a text that parses
PyFloat(text) ==
    IF text = <<"i", "n", "f">> THEN Infinity ELSE DecimalValue(text, 0)

\* the file: absent, present with a text, or present and unreadable
AbsentFile == [st |-> "absent", text |-> <<>>]

StoredFile(text) == [st |-> "present", text |-> text]

UnreadableFile == [st |-> "unreadable", text |-> <<>>]

\* str.strip(): leading and trailing whitespace removed
RECURSIVE LStrip(_)
LStrip(text) ==
    IF text # <<>> /\ Head(text) = " " THEN LStrip(Tail(text)) ELSE text

RECURSIVE RStrip(_)
RStrip(text) ==
    IF text # <<>> /\ text[Len(text)] = " "
    THEN RStrip(SubSeq(text, 1, Len(text) - 1))
    ELSE text

Strip(text) == RStrip(LStrip(text))

\* the digits a text starts with
RECURSIVE LeadingDigits(_)
LeadingDigits(text) ==
    IF text # <<>> /\ IsDigit(Head(text))
    THEN <<Head(text)>> \o LeadingDigits(Tail(text))
    ELSE <<>>

\* a reader that converts like C's atof: the leading digits, whatever follows
leer_como_atof(file) ==
    IF file.st # "present" THEN 0
    ELSE IF Strip(file.text) = <<"i", "n", "f">> THEN Infinity
    ELSE DecimalValue(LeadingDigits(Strip(file.text)), 0)

leer_ultima_fecha_backup(file) ==
    IF file.st = "absent" THEN 0
    ELSE IF file.st = "unreadable" THEN 0
    ELSE LET timestamp_str == Strip(file.text)
         IN IF timestamp_str = <<>> THEN 0
            ELSE IF ~ParsesAsFloat(timestamp_str) THEN 0
            ELSE PyFloat(timestamp_str)

\* a write whose open() fails leaves the file alone, one that fails after
\* open(..., "w") leaves it truncated
WriteOutcomes == {"ok", "open_fails", "write_fails"}

escribir_drops_the_write(file, timestamp, outcome) == file

\* a writer whose failures still leave the new timestamp in the file
escribir_stores_despite_failure(file, timestamp, outcome) ==
    StoredFile(PyStr(timestamp))

escribir_ultima_fecha_backup(file, timestamp, outcome) ==
    CASE outcome = "ok" -> StoredFile(PyStr(timestamp))
      [] outcome = "open_fails" -> file
      [] outcome = "write_fails" -> StoredFile(<<>>)

\* datetime.datetime.fromtimestamp(ts) raises for a value out of its range
fromtimestamp_raises(ts) == ts >= Infinity

(***************************************************************************)
(* Archive writers                                                         *)
(*   env.unreadable : files missing or unreadable when they are added      *)
(*   env.dirFail    : empty directories whose entry cannot be written      *)
(*   env.dest       : "ok", "mkdir_fails", "open_fails" or "close_fails"   *)
(*   env.stamp      : datetime.now() formatted with DATE_FORMAT (a minute) *)
(***************************************************************************)
DestOutcomes == {"ok", "mkdir_fails", "open_fails", "close_fails"}

\* two decimal digits, zero padded (%d, %m, %H and %M of strftime)
TwoDigits(n) == <<Digits[((n \div 10) % 10) + 1], Digits[(n % 10) + 1]>>

\* datetime.datetime.now().strftime(DATE_FORMAT), "%d-%m-%Y_%H-%M", the clock
\* read as the minute-th minute since 01-01-2025 00:00
strftime(minute) ==
    TwoDigits(1 + (minute \div 1440)) \o <<"-">> \o TwoDigits(1) \o <<"-">>
        \o PyStr(2025) \o <<"_">> \o TwoDigits((minute \div 60) % 24)
        \o <<"-">> \o TwoDigits(minute % 60)

\* the prefix the specification gives to the archive of a full backup
PrefijoFull == <<"F", "U", "L", "L">>

\* completo.py line 120: f"COM_{nombre_base_zip}_{timestamp_str}.zip"
PrefijoCompleto == <<"C", "O", "M">>

\* incremental.py line 108: f"INC_{nombre_base_zip}_{timestamp_str}.zip"
PrefijoIncremental == <<"I", "N", "C">>

zip_filename(prefijo, nombre_base_zip, timestamp_str) ==
    prefijo \o <<"_">> \o nombre_base_zip \o <<"_">> \o timestamp_str
        \o <<".", "z", "i", "p">>

NoArtifact == [name |-> <<>>, entries |-> <<>>, finalized |-> FALSE]

\* "if empty_folders_to_add": neither None nor an empty list
Truthy(opt) == opt # NoList /\ opt[1] # <<>>

LenOrZero(opt) == IF Truthy(opt) THEN Len(opt[1]) ELSE 0

FileEntry(path) == <<"file", path>>

DirEntry(path) == <<"dir", path>>

\* a loop that skips a failing file without counting it
RECURSIVE AddFilesIsolated_uncounted(_, _)
AddFilesIsolated_uncounted(files, unreadable) ==
    IF files = <<>> THEN [errors |-> 0, entries |-> <<>>]
    ELSE LET rest == AddFilesIsolated_uncounted(Tail(files), unreadable)
         IN IF Head(files) \in unreadable
            THEN rest
            ELSE [errors |-> rest.errors,
                  entries |-> <<FileEntry(Head(files))>> \o rest.entries]

\* the loop of completo.py lines 133-149: a failing file is counted and skipped
RECURSIVE AddFilesIsolated(_, _)
AddFilesIsolated(files, unreadable) ==
    IF files = <<>> THEN [errors |-> 0, entries |-> <<>>]
    ELSE LET rest == AddFilesIsolated(Tail(files), unreadable)
         IN IF Head(files) \in unreadable
            THEN [errors |-> rest.errors + 1, entries |-> rest.entries]
            ELSE [errors |-> rest.errors,
                  entries |-> <<FileEntry(Head(files))>> \o rest.entries]

\* the loop of completo.py lines 152-162
RECURSIVE AddEmptyFolders(_, _)
AddEmptyFolders(folders, dirFail) ==
    IF folders = <<>> THEN [errors |-> 0, entries |-> <<>>]
    ELSE LET rest == AddEmptyFolders(Tail(folders), dirFail)
         IN IF Head(folders) \in dirFail
            THEN [errors |-> rest.errors + 1, entries |-> rest.entries]
            ELSE [errors |-> rest.errors,
                  entries |-> <<DirEntry(Head(folders))>> \o rest.entries]

\* the loop of incremental.py lines 119-124: the first failing file ends it
RECURSIVE AddFilesUntilError(_, _)
AddFilesUntilError(files, unreadable) ==
    IF files = <<>> THEN [failed |-> FALSE, entries |-> <<>>]
    ELSE IF Head(files) \in unreadable THEN [failed |-> TRUE, entries |-> <<>>]
    ELSE LET rest == AddFilesUntilError(Tail(files), unreadable)
         IN [failed |-> rest.failed,
             entries |-> <<FileEntry(Head(files))>> \o rest.entries]

\* a writer without the inner try: the first failing file aborts the archive
crear_zip_completo_aborts(nombre_base_zip, files_to_zip, empty_folders_to_add, env) ==
    LET intended == Len(files_to_zip) + LenOrZero(empty_folders_to_add)
        name == zip_filename(PrefijoCompleto, nombre_base_zip, strftime(env.stamp))
        added == AddFilesUntilError(files_to_zip, env.unreadable)
    IN  IF files_to_zip = <<>> /\ ~Truthy(empty_folders_to_add)
        THEN [raised |-> FALSE, ret |-> 0, artifact |-> NoArtifact, mkdir |-> FALSE]
        ELSE IF env.dest = "mkdir_fails"
        THEN [raised |-> TRUE, ret |-> 0, artifact |-> NoArtifact, mkdir |-> FALSE]
        ELSE IF env.dest = "open_fails"
        THEN [raised |-> FALSE, ret |-> intended, artifact |-> NoArtifact, mkdir |-> TRUE]
        ELSE [raised |-> FALSE,
              ret |-> IF added.failed \/ env.dest = "close_fails" THEN intended ELSE 0,
              artifact |-> [name |-> name, entries |-> added.entries,
                            finalized |-> env.dest = "ok"],
              mkdir |-> TRUE]

crear_zip_completo(nombre_base_zip, files_to_zip, empty_folders_to_add, env) ==
    LET intended == Len(files_to_zip) + LenOrZero(empty_folders_to_add)
        name == zip_filename(PrefijoCompleto, nombre_base_zip, strftime(env.stamp))
        files == AddFilesIsolated(files_to_zip, env.unreadable)
        dirs == IF Truthy(empty_folders_to_add)
                THEN AddEmptyFolders(empty_folders_to_add[1], env.dirFail)
                ELSE [errors |-> 0, entries |-> <<>>]
        zip_errors_count == files.errors + dirs.errors
    IN  IF files_to_zip = <<>> /\ ~Truthy(empty_folders_to_add)
        THEN [raised |-> FALSE, ret |-> 0, artifact |-> NoArtifact, mkdir |-> FALSE]
        ELSE IF env.dest = "mkdir_fails"
        THEN [raised |-> TRUE, ret |-> 0, artifact |-> NoArtifact, mkdir |-> FALSE]
        ELSE IF env.dest = "open_fails"
        THEN [raised |-> FALSE, ret |-> intended, artifact |-> NoArtifact, mkdir |-> TRUE]
        ELSE IF env.dest = "close_fails"
        THEN [raised |-> FALSE, ret |-> zip_errors_count + intended,
              artifact |-> [name |-> name, entries |-> files.entries \o dirs.entries,
                            finalized |-> FALSE],
              mkdir |-> TRUE]
        ELSE [raised |-> FALSE, ret |-> zip_errors_count,
              artifact |-> [name |-> name, entries |-> files.entries \o dirs.entries,
                            finalized |-> TRUE],
              mkdir |-> TRUE]

\* returns None whatever happens; an error while adding is only logged
crear_zip_incremental(nombre_base_zip, files_to_zip, env) ==
    LET name == zip_filename(PrefijoIncremental, nombre_base_zip, strftime(env.stamp))
        added == AddFilesUntilError(files_to_zip, env.unreadable)
    IN  IF files_to_zip = <<>>
        THEN [raised |-> FALSE, ret |-> None, artifact |-> NoArtifact, mkdir |-> FALSE]
        ELSE IF env.dest = "mkdir_fails"
        THEN [raised |-> TRUE, ret |-> None, artifact |-> NoArtifact, mkdir |-> FALSE]
        ELSE IF env.dest = "open_fails"
        THEN [raised |-> FALSE, ret |-> None, artifact |-> NoArtifact, mkdir |-> TRUE]
        ELSE [raised |-> FALSE, ret |-> None,
              artifact |-> [name |-> name, entries |-> added.entries,
                            finalized |-> env.dest = "ok"],
              mkdir |-> TRUE]

\* tasks.py lines 103-122: the task-queue variant wraps each file in its own
\* try; a failing file is logged and skipped, nothing is counted or returned
tasks_crear_zip_incremental(nombre_base_zip, files_to_zip, env) ==
    LET name == zip_filename(PrefijoIncremental, nombre_base_zip, strftime(env.stamp))
        added == AddFilesIsolated(files_to_zip, env.unreadable)
    IN  IF files_to_zip = <<>>
        THEN [raised |-> FALSE, ret |-> None, artifact |-> NoArtifact, mkdir |-> FALSE]
        ELSE IF env.dest = "mkdir_fails"
        THEN [raised |-> TRUE, ret |-> None, artifact |-> NoArtifact, mkdir |-> FALSE]
        ELSE IF env.dest = "open_fails"
        THEN [raised |-> FALSE, ret |-> None, artifact |-> NoArtifact, mkdir |-> TRUE]
        ELSE [raised |-> FALSE, ret |-> None,
              artifact |-> [name |-> name, entries |-> added.entries,
                            finalized |-> env.dest = "ok"],
              mkdir |-> TRUE]

\* datetime.datetime.now() read in seconds since 01-01-2025 00:00: the minute
\* "%H-%M" keeps of it
MinutoDe(segundos) == segundos \div 60

\* an archive opened in append mode: the entries of an artifact already at the
\* path are kept
EscribirEnDestino_append(destino, artifact) ==
    IF artifact = NoArtifact THEN destino
    ELSE LET old == {a \in destino : a.name = artifact.name}
         IN (destino \ old)
            \cup (IF old = {} THEN {artifact}
                  ELSE {[artifact EXCEPT !.entries = a.entries \o @] : a \in old})

\* zipfile.ZipFile(full_zip_path, 'w', ...) in the destination directory
\* (completo.py line 131, incremental.py line 117): mode 'w' truncates a file
\* already at the path; a writer that did not open an archive leaves the
\* directory as it was
EscribirEnDestino(destino, artifact) ==
    IF artifact = NoArtifact THEN destino
    ELSE {a \in destino : a.name # artifact.name} \cup {artifact}

(***************************************************************************)
(* Catalogue of a source: listar_contenido_recursivo                       *)
(*   origen.raiz      : "dir", "file" (not a directory) or "missing"       *)
(*   origen.nodos     : the files and directories below the root           *)
(*   origen.padre[k]  : the directory holding k, Raiz for the root         *)
(*   origen.tipo[k]   : "file" or "dir"                                    *)
(*   origen.ilegibles : directories whose listing fails (permission denied) *)
(***************************************************************************)
Raiz == 0

Hijos(origen, d) == {k \in origen.nodos : origen.padre[k] = d}

\* a walk that reports the root too when it has no content
RECURSIVE Walk_reports_root(_, _)
Walk_reports_root(origen, stack) ==
    IF stack = <<>> THEN [archivos |-> <<>>, carpetas_vacias |-> <<>>]
    ELSE LET dirpath == Head(stack)
             filenames == Ordenar({k \in Hijos(origen, dirpath) : origen.tipo[k] = "file"})
             dirnames == Ordenar({k \in Hijos(origen, dirpath) : origen.tipo[k] = "dir"})
         IN IF dirpath \in origen.ilegibles
            THEN Walk_reports_root(origen, Tail(stack))
            ELSE LET rest == Walk_reports_root(origen, dirnames \o Tail(stack))
                 IN [archivos |-> filenames \o rest.archivos,
                     carpetas_vacias |->
                        (IF dirnames = <<>> /\ filenames = <<>>
                         THEN <<dirpath>> ELSE <<>>) \o rest.carpetas_vacias]

\* the loop over os.walk (incremental.py lines 81-87, completo.py lines 83-91):
\* top-down; a directory whose listing fails yields nothing (onerror is None)
\* and is not descended into
RECURSIVE Walk(_, _)
Walk(origen, stack) ==
    IF stack = <<>> THEN [archivos |-> <<>>, carpetas_vacias |-> <<>>]
    ELSE LET dirpath == Head(stack)
             filenames == Ordenar({k \in Hijos(origen, dirpath) : origen.tipo[k] = "file"})
             dirnames == Ordenar({k \in Hijos(origen, dirpath) : origen.tipo[k] = "dir"})
         IN IF dirpath \in origen.ilegibles
            THEN Walk(origen, Tail(stack))
            ELSE LET rest == Walk(origen, dirnames \o Tail(stack))
                 IN [archivos |-> filenames \o rest.archivos,
                     carpetas_vacias |->
                        (IF dirnames = <<>> /\ filenames = <<>> /\ dirpath # Raiz
                         THEN <<dirpath>> ELSE <<>>) \o rest.carpetas_vacias]

listar_contenido_recursivo(origen) ==
    IF origen.raiz # "dir"
    THEN [archivos |-> <<>>, carpetas_vacias |-> <<>>]
    ELSE Walk(origen, <<Raiz>>)

\* a root holding the files 'archivos' and the empty directories 'carpetas'
FlatTree(raiz, archivos, carpetas) ==
    [raiz |-> raiz, nodos |-> archivos \cup carpetas,
     padre |-> [k \in archivos \cup carpetas |-> Raiz],
     tipo |-> [k \in archivos \cup carpetas |->
                 IF k \in archivos THEN "file" ELSE "dir"],
     ilegibles |-> {}]

(***************************************************************************)
(* Per-source orchestrations                                               *)
(***************************************************************************)
\* incremental.py line 152: modified or created since the last backup
EsModificado_o_igual(fecha_mod_actual, last_backup_timestamp) ==
    fecha_mod_actual >= last_backup_timestamp

EsModificado(fecha_mod_actual, last_backup_timestamp) ==
    fecha_mod_actual > last_backup_timestamp

\* a classification that also counts a file whose os.stat raises as unchanged
RECURSIVE Clasificar_error_sin_cambios(_, _, _, _)
Clasificar_error_sin_cambios(archivos_en_origen, st_mtime, statFail, last_backup_timestamp) ==
    IF archivos_en_origen = <<>>
    THEN [files_to_zip |-> <<>>, archivos_modificados_o_nuevos |-> 0,
          archivos_sin_cambios |-> 0, archivos_error |-> 0]
    ELSE LET ruta_archivo == Head(archivos_en_origen)
             rest == Clasificar_error_sin_cambios(Tail(archivos_en_origen), st_mtime,
                                                  statFail, last_backup_timestamp)
         IN IF ruta_archivo \in statFail
            THEN [rest EXCEPT !.archivos_error = @ + 1, !.archivos_sin_cambios = @ + 1]
            ELSE IF EsModificado(st_mtime[ruta_archivo], last_backup_timestamp)
            THEN [rest EXCEPT !.files_to_zip = <<ruta_archivo>> \o @,
                              !.archivos_modificados_o_nuevos = @ + 1]
            ELSE [rest EXCEPT !.archivos_sin_cambios = @ + 1]

\* the loop of incremental.py lines 146-169 over the catalogue; statFail holds
\* the files whose os.stat raises
RECURSIVE Clasificar(_, _, _, _)
Clasificar(archivos_en_origen, st_mtime, statFail, last_backup_timestamp) ==
    IF archivos_en_origen = <<>>
    THEN [files_to_zip |-> <<>>, archivos_modificados_o_nuevos |-> 0,
          archivos_sin_cambios |-> 0, archivos_error |-> 0]
    ELSE LET ruta_archivo == Head(archivos_en_origen)
             rest == Clasificar(Tail(archivos_en_origen), st_mtime, statFail,
                                last_backup_timestamp)
         IN IF ruta_archivo \in statFail
            THEN [rest EXCEPT !.archivos_error = @ + 1]
            ELSE IF EsModificado(st_mtime[ruta_archivo], last_backup_timestamp)
            THEN [rest EXCEPT !.files_to_zip = <<ruta_archivo>> \o @,
                              !.archivos_modificados_o_nuevos = @ + 1]
            ELSE [rest EXCEPT !.archivos_sin_cambios = @ + 1]

ejecutar_backup_incremental(nombre_base_zip, origen, st_mtime, last_backup_timestamp, statFail, env) ==
    LET archivos_en_origen == listar_contenido_recursivo(origen).archivos
        c == Clasificar(archivos_en_origen, st_mtime, statFail, last_backup_timestamp)
        z == crear_zip_incremental(nombre_base_zip, c.files_to_zip, env)
    IN  [raised |-> z.raised, ret |-> c.archivos_error,
         files_to_zip |-> c.files_to_zip,
         archivos_modificados_o_nuevos |-> c.archivos_modificados_o_nuevos,
         archivos_sin_cambios |-> c.archivos_sin_cambios,
         artifact |-> z.artifact]

\* an orchestration that counts a root that is not a directory as an error
ejecutar_backup_completo_root_error(nombre_base_zip, origen, env) ==
    LET files_to_zip == listar_contenido_recursivo(origen).archivos
        carpetas_vacias_en_origen == listar_contenido_recursivo(origen).carpetas_vacias
        archivos_error_listado == IF origen.raiz # "dir" THEN 1 ELSE 0
        z == crear_zip_completo(nombre_base_zip, files_to_zip,
                                AList(carpetas_vacias_en_origen), env)
    IN  [raised |-> z.raised, ret |-> archivos_error_listado + z.ret,
         files_to_zip |-> files_to_zip, artifact |-> z.artifact]

\* the loop of completo.py lines 208-222 appends every catalogued file and
\* cannot fail: archivos_error_listado stays 0
ejecutar_backup_completo(nombre_base_zip, origen, env) ==
    LET archivos_en_origen == listar_contenido_recursivo(origen).archivos
        carpetas_vacias_en_origen == listar_contenido_recursivo(origen).carpetas_vacias
        files_to_zip == archivos_en_origen
        archivos_error_listado == 0
        z == crear_zip_completo(nombre_base_zip, files_to_zip,
                                AList(carpetas_vacias_en_origen), env)
    IN  [raised |-> z.raised, ret |-> archivos_error_listado + z.ret,
         files_to_zip |-> files_to_zip, artifact |-> z.artifact]

(***************************************************************************)
(* Configuration (config.json) and the mode decision                       *)
(***************************************************************************)
RequiredKeys == {"origen_ruta", "destino_ruta", "nombre_base_zip"}

\* entry.keys: the required keys the entry has; entry.tipo: its
\* tipo_backup.completo, "absent" when the entry has no tipo_backup and
\* "other" when tipo_backup holds no explicit boolean
TipoValues == {"absent", "true", "false", "other"}

KeySets == {RequiredKeys} \cup {RequiredKeys \ {k} : k \in RequiredKeys}

Entries == [keys : KeySets, tipo : TipoValues]

EntradaCompleta(entry) == RequiredKeys \subseteq entry.keys

\* dict: the configuration is an object whose 'origenes' is a list
MalformedConfig == [dict |-> FALSE, origenes |-> <<>>]

ConfigOf(origenes) == [dict |-> TRUE, origenes |-> origenes]

RECURSIVE SeqsUpTo(_, _)
SeqsUpTo(S, n) ==
    IF n = 0 THEN {<<>>}
    ELSE LET shorter == SeqsUpTo(S, n - 1)
         IN shorter \cup {Append(q, e) : q \in shorter, e \in S}

Configs == {MalformedConfig} \cup {ConfigOf(o) : o \in SeqsUpTo(Entries, MaxSources)}

\* the source directory of the i-th entry and the files it holds
OrigenDe(i) == IF i = 1 THEN "r1" ELSE "r2"

\* the tree under a source directory
ArbolDe(root) ==
    IF root = "r1" THEN FlatTree("dir", {1}, {}) ELSE FlatTree("dir", {2}, {})

ArchivosDe(root) == listar_contenido_recursivo(ArbolDe(root)).archivos

CarpetasVaciasDe(root) == listar_contenido_recursivo(ArbolDe(root)).carpetas_vacias

\* the 'nombre_base_zip' of the i-th entry
NombreDe(i) == <<"n">> \o PyStr(i)

Archivos == {1, 2}

\* a decision that lets an explicit True override the global mode
should_run_full_override_first(entry, global_desired_type) ==
    \/ entry.tipo = "true"
    \/ entry.tipo \in {"absent", "other"} /\ global_desired_type = "full"

\* completo.py lines 259-279: should_run_full_for_origin
should_run_full_for_origin(entry, global_desired_type) ==
    IF global_desired_type = "full"
    THEN IF entry.tipo # "absent"
         THEN IF entry.tipo = "true" THEN TRUE
              ELSE IF entry.tipo = "false" THEN FALSE
              ELSE TRUE
         ELSE TRUE
    ELSE FALSE

\* every branch of completo.py lines 263-279 formats entry['origen_ruta'] into
\* its log message: the loop raises KeyError at the first entry without it
PrimeraSinOrigen(origenes) ==
    \E i \in DOMAIN origenes : "origen_ruta" \notin origenes[i].keys

\* completo.py lines 282-288
TasksToRun(origenes, global_desired_type) ==
    {i \in DOMAIN origenes :
        /\ should_run_full_for_origin(origenes[i], global_desired_type)
        /\ EntradaCompleta(origenes[i])}

Incompletas(origenes, global_desired_type) ==
    {i \in DOMAIN origenes :
        /\ should_run_full_for_origin(origenes[i], global_desired_type)
        /\ ~EntradaCompleta(origenes[i])}

\* incremental.py line 203
TodasCompletas(origenes) == \A i \in DOMAIN origenes : EntradaCompleta(origenes[i])

(***************************************************************************)
(* Metadata mode (main.py): the index is the table of rows                 *)
(* <<UBICACION, FECHA_MOD, PESO, HASH>>, UBICACION unique                   *)
(***************************************************************************)
\* main.py lines 73-81: the row as a one-element list, <<>> for fetchone() = None
obtener_info_archivo(index, ubicacion) ==
    IF \E row \in index : row[1] = ubicacion
    THEN <<CHOOSE row \in index : row[1] = ubicacion>>
    ELSE <<>>

\* main.py lines 54-71: INSERT ... ON CONFLICT(UBICACION) DO UPDATE
insertar_o_actualizar_archivo(index, ubicacion, fecha_mod, peso, hash_valor) ==
    {row \in index : row[1] # ubicacion}
        \cup {<<ubicacion, fecha_mod, peso, hash_valor>>}

\* main.py lines 118-142: the digest of the content, None when reading fails
generar_hash_archivo(fs, ruta_archivo) ==
    IF ruta_archivo \in fs.hashFail THEN None ELSE fs.contenido[ruta_archivo]

\* the state of the loop: the index, the files generar_hash_archivo was called
\* on and the three counters
MetaInicio(index) ==
    [index |-> index, hashed |-> {}, archivos_modificados_o_nuevos |-> 0,
     archivos_sin_cambios |-> 0, archivos_error |-> 0]

\* a loop body that hashes a recorded file even when date and size are equal
ProcesarArchivo_siempre_hash(ruta_archivo, fs, st) ==
    IF ruta_archivo \in fs.statFail
    THEN [st EXCEPT !.archivos_error = @ + 1]
    ELSE LET fecha_mod_actual == fs.st_mtime[ruta_archivo]
             peso_actual == fs.st_size[ruta_archivo]
             info_db == obtener_info_archivo(st.index, ruta_archivo)
             hash_actual == generar_hash_archivo(fs, ruta_archivo)
             hashing == [st EXCEPT !.hashed = @ \cup {ruta_archivo}]
             guardado == insertar_o_actualizar_archivo(st.index, ruta_archivo,
                             fecha_mod_actual, peso_actual, hash_actual)
         IN IF hash_actual = None
            THEN [hashing EXCEPT !.archivos_error = @ + 1]
            ELSE IF info_db # <<>> /\ hash_actual = info_db[1][4]
            THEN [hashing EXCEPT !.archivos_sin_cambios = @ + 1]
            ELSE [hashing EXCEPT !.index = guardado,
                                 !.archivos_modificados_o_nuevos = @ + 1]

\* one iteration of the loop of main.py lines 156-213; fs.statFail holds the
\* files whose os.stat raises
ProcesarArchivo(ruta_archivo, fs, st) ==
    IF ruta_archivo \in fs.statFail
    THEN [st EXCEPT !.archivos_error = @ + 1]
    ELSE LET fecha_mod_actual == fs.st_mtime[ruta_archivo]
             peso_actual == fs.st_size[ruta_archivo]
             info_db == obtener_info_archivo(st.index, ruta_archivo)
             hash_actual == generar_hash_archivo(fs, ruta_archivo)
             hashing == [st EXCEPT !.hashed = @ \cup {ruta_archivo}]
             guardado == insertar_o_actualizar_archivo(st.index, ruta_archivo,
                             fecha_mod_actual, peso_actual, hash_actual)
         IN IF info_db # <<>>
            THEN IF fecha_mod_actual = info_db[1][2] /\ peso_actual = info_db[1][3]
                 THEN [st EXCEPT !.archivos_sin_cambios = @ + 1]
                 ELSE IF hash_actual # None /\ hash_actual # info_db[1][4]
                 THEN [hashing EXCEPT !.index = guardado,
                                      !.archivos_modificados_o_nuevos = @ + 1]
                 ELSE IF hash_actual = info_db[1][4]
                 THEN [hashing EXCEPT !.archivos_sin_cambios = @ + 1]
                 ELSE [hashing EXCEPT !.archivos_error = @ + 1]
            ELSE IF hash_actual # None
                 THEN [hashing EXCEPT !.index = guardado,
                                      !.archivos_modificados_o_nuevos = @ + 1]
                 ELSE [hashing EXCEPT !.archivos_error = @ + 1]

RECURSIVE ProcesarArchivos(_, _, _)
ProcesarArchivos(archivos_en_origen, fs, st) ==
    IF archivos_en_origen = <<>> THEN st
    ELSE ProcesarArchivos(Tail(archivos_en_origen), fs,
                          ProcesarArchivo(Head(archivos_en_origen), fs, st))

\* main.py lines 145-216: ejecutar_backup_incremental(conn, origen_path) of the
\* metadata mode, the index standing for the table behind conn
main_ejecutar_backup_incremental(index, archivos_en_origen, fs) ==
    ProcesarArchivos(archivos_en_origen, fs, MetaInicio(index))

(***************************************************************************)
(* State                                                                   *)
(***************************************************************************)
VARIABLES
    call,        \* SpecZip, SpecOrch: the call of a writer or an orchestration
    result,      \* <<>> until the call returns, then <<its result>>
    now,         \* time.time()
    mtime,       \* st_mtime of every source file
    refFile,     \* last_backup_date.txt
    config,      \* config_data
    pc,          \* "idle", "sources", "write", "done" or "raised"
    proc,        \* the entry point running: "full" or "incremental"
    globalType,  \* global_desired_type
    lastTs,      \* last_backup_timestamp_global
    pending,     \* entries still to be run
    total,       \* total_backup_errors
    ret,         \* the value the entry point returned
    startTs,     \* the clock when the run started
    refAtStart,  \* the reference file when the run started
    wrote,       \* "none", or the outcome of this run's reference write
    ranFull,     \* entries run by ejecutar_backup_completo in this run
    ranInc,      \* entries run by ejecutar_backup_incremental in this run
    trouble,     \* some file or archive operation failed in this run
    archived,    \* <<file, mtime>> of every file version in a finalized archive
    running,     \* submitted entries a worker of the pool is executing
    crashed,     \* entries whose orchestration raised in this run
    refWrites,   \* calls of escribir_ultima_fecha_backup in this run
    sampled      \* SpecTasks: tasks that evaluated time.time() and are about to write

callVars == <<call, result>>

runVars == <<now, mtime, refFile, config, pc, proc, globalType, lastTs, pending,
             total, ret, startTs, refAtStart, wrote, ranFull, ranInc, trouble,
             archived, running, crashed, refWrites, sampled>>

vars == <<call, result, now, mtime, refFile, config, pc, proc, globalType, lastTs,
          pending, total, ret, startTs, refAtStart, wrote, ranFull, ranInc,
          trouble, archived, running, crashed, refWrites, sampled>>

Prefix(n) == [i \in 1..n |-> i]

NoCall == [fn |-> "none", nombre |-> <<"n">>, files |-> <<>>, dirs |-> NoList,
           st_mtime |-> <<>>, ref |-> 0, statFail |-> {},
           env |-> [unreadable |-> {}, dirFail |-> {}, dest |-> "ok", stamp |-> 1]]

\* the run-level state before any run: every source file was last modified at
\* the first tick
RunIdle ==
    /\ now = FirstTick
    /\ mtime = [f \in Archivos |-> FirstTick]
    /\ pc = "idle"
    /\ proc = "none"
    /\ globalType = "none"
    /\ lastTs = 0
    /\ pending = {}
    /\ total = 0
    /\ ret = 0
    /\ startTs = 0
    /\ refAtStart = AbsentFile
    /\ wrote = "none"
    /\ ranFull = {}
    /\ ranInc = {}
    /\ trouble = FALSE
    /\ archived = {}
    /\ running = {}
    /\ crashed = {}
    /\ refWrites = 0
    /\ sampled = {}

(***************************************************************************)
(* SpecZip: the archive writers applied to every bounded input             *)
(***************************************************************************)
\* the minutes at which the writers are called in SpecZip
ZipStamps == {1, 75}

ZipCall(fn, files, dirs, unreadable, dirFail, dest, stamp) ==
    [fn |-> fn, nombre |-> <<"n">>, files |-> files, dirs |-> dirs,
     st_mtime |-> <<>>, ref |-> 0, statFail |-> {},
     env |-> [unreadable |-> unreadable, dirFail |-> dirFail, dest |-> dest,
              stamp |-> stamp]]

InitZip ==
    /\ \E n \in 0..MaxZipFiles, dest \in DestOutcomes, stamp \in ZipStamps :
         \E u \in SUBSET (1..n) :
            \/ call = ZipCall("crear_zip_incremental", Prefix(n), NoList, u, {}, dest,
                              stamp)
            \/ call = ZipCall("crear_zip_completo", Prefix(n), NoList, u, {}, dest,
                              stamp)
            \/ \E m \in 0..MaxZipDirs :
                 \E df \in SUBSET (1..m) :
                    call = ZipCall("crear_zip_completo", Prefix(n), AList(Prefix(m)),
                                   u, df, dest, stamp)
    /\ result = <<>>
    /\ refFile = AbsentFile
    /\ config = MalformedConfig
    /\ RunIdle

Call_crear_zip_completo ==
    /\ call.fn = "crear_zip_completo"
    /\ result = <<>>
    /\ result' = <<crear_zip_completo(call.nombre, call.files, call.dirs, call.env)>>
    /\ UNCHANGED <<call, runVars>>

Call_crear_zip_incremental ==
    /\ call.fn = "crear_zip_incremental"
    /\ result = <<>>
    /\ result' = <<crear_zip_incremental(call.nombre, call.files, call.env)>>
    /\ UNCHANGED <<call, runVars>>

NextZip == Call_crear_zip_completo \/ Call_crear_zip_incremental

SpecZip == InitZip /\ [][NextZip]_vars

(***************************************************************************)
(* SpecMinute: one writer called twice with the same base name and the      *)
(* same destination directory, the second call at or after the first       *)
(***************************************************************************)
\* the seconds at which the writers are called in SpecMinute
ClockSeconds == {0, 59, 60}

ZipOp(files, dirs, unreadable, dirFail, dest, segundos) ==
    [files |-> files, dirs |-> dirs, segundos |-> segundos,
     env |-> [unreadable |-> unreadable, dirFail |-> dirFail, dest |-> dest,
              stamp |-> MinutoDe(segundos)]]

ZipOps(fn) ==
    {ZipOp(Prefix(n), NoList, u, {}, dest, t) :
        n \in 0..MaxCatalog, u \in SUBSET (1..MaxCatalog), dest \in DestOutcomes,
        t \in ClockSeconds}
    \cup IF fn = "crear_zip_completo"
         THEN {ZipOp(Prefix(n), AList(Prefix(1)), u, df, dest, t) :
                  n \in 0..MaxCatalog, u \in SUBSET (1..MaxCatalog),
                  df \in SUBSET {1}, dest \in DestOutcomes, t \in ClockSeconds}
         ELSE {}

InitMinute ==
    /\ \E fn \in {"crear_zip_completo", "crear_zip_incremental"} :
         \E first \in {o \in ZipOps(fn) : o.env.unreadable \subseteq Range(o.files)} :
          \E second \in {o \in ZipOps(fn) :
                            /\ o.env.unreadable \subseteq Range(o.files)
                            /\ o.segundos >= first.segundos} :
            call = [fn |-> fn, nombre |-> <<"n">>, ops |-> <<first, second>>]
    /\ result = <<>>
    /\ refFile = AbsentFile
    /\ config = MalformedConfig
    /\ RunIdle

\* what the destination directory holds after the calls made so far
Destino == IF result = <<>> THEN {} ELSE result[Len(result)].destino

\* the next call of the writer and the destination directory after it
Call_writer_in_destino ==
    /\ Len(result) < Len(call.ops)
    /\ LET op == call.ops[Len(result) + 1]
           res == IF call.fn = "crear_zip_completo"
                  THEN crear_zip_completo(call.nombre, op.files, op.dirs, op.env)
                  ELSE crear_zip_incremental(call.nombre, op.files, op.env)
       IN result' = Append(result,
                           [res |-> res,
                            destino |-> EscribirEnDestino(Destino, res.artifact)])
    /\ UNCHANGED <<call, runVars>>

NextMinute == Call_writer_in_destino

SpecMinute == InitMinute /\ [][NextMinute]_vars

(***************************************************************************)
(* SpecMeta: the metadata mode run twice over a source that does not       *)
(* change, from every bounded index                                        *)
(***************************************************************************)
\* the modification times and sizes a record can hold; every file of the
\* source has the last of them
MetaValues == {1, 2}

Hashes == {"h1", "h2"}

\* what a file can be: readable, os.stat raises, or reading its content fails
FileStates == {"ok", "stat_fails", "hash_fails"}

\* the rows a file can have in the index: none, or one with any recorded values
RowsOf(f) ==
    {{}} \cup {{<<f, m, p, h>>} : m \in MetaValues, p \in MetaValues, h \in Hashes}

MetaRuns == 2

InitMeta ==
    /\ \E n \in 0..MaxCatalog :
         \E rows \in [1..n -> UNION {RowsOf(f) : f \in 1..n}],
            state \in [1..n -> FileStates] :
            /\ \A f \in 1..n : rows[f] \in RowsOf(f)
            /\ call = [fn |-> "main_ejecutar_backup_incremental",
                       archivos |-> Prefix(n),
                       index |-> UNION {rows[f] : f \in 1..n},
                       fs |-> [st_mtime |-> [f \in 1..n |-> 2],
                               st_size |-> [f \in 1..n |-> 2],
                               contenido |-> [f \in 1..n |-> "h2"],
                               statFail |-> {f \in 1..n : state[f] = "stat_fails"},
                               hashFail |-> {f \in 1..n : state[f] = "hash_fails"}]]
    /\ result = <<>>
    /\ refFile = AbsentFile
    /\ config = MalformedConfig
    /\ RunIdle

\* the index a run starts from: the one the previous run left
IndexAntes(k) == IF k = 1 THEN call.index ELSE result[k - 1].index

Call_main_ejecutar_backup_incremental ==
    /\ call.fn = "main_ejecutar_backup_incremental"
    /\ Len(result) < MetaRuns
    /\ result' = Append(result,
                        main_ejecutar_backup_incremental(IndexAntes(Len(result) + 1),
                                                         call.archivos, call.fs))
    /\ UNCHANGED <<call, runVars>>

NextMeta == Call_main_ejecutar_backup_incremental

SpecMeta == InitMeta /\ [][NextMeta]_vars

(***************************************************************************)
(* SpecRef: the reference store read and written over every bounded content *)
(* of last_backup_date.txt                                                 *)
(***************************************************************************)
RefChars == {"0", "1", "x", " "}

RefFiles ==
    {AbsentFile, UnreadableFile, StoredFile(<<"i", "n", "f">>)}
        \cup {StoredFile(t) : t \in SeqsUpTo(RefChars, MaxRefLen)}
        \cup {StoredFile(PyStr(n)) : n \in FirstTick..LastTick}

RefCall(fn, file, timestamp, outcome) ==
    [fn |-> fn, file |-> file, timestamp |-> timestamp, outcome |-> outcome]

InitRef ==
    /\ call = RefCall("none", AbsentFile, 0, "none")
    /\ result = <<>>
    /\ refFile \in RefFiles
    /\ config = MalformedConfig
    /\ RunIdle

\* lastTs keeps the value the last read returned
Call_leer_ultima_fecha_backup ==
    /\ call' = RefCall("leer_ultima_fecha_backup", refFile, 0, "none")
    /\ result' = <<[raised |-> FALSE, ret |-> leer_ultima_fecha_backup(refFile)]>>
    /\ lastTs' = leer_ultima_fecha_backup(refFile)
    /\ UNCHANGED <<now, mtime, refFile, config, pc, proc, globalType, pending, total,
                   ret, startTs, refAtStart, wrote, ranFull, ranInc, trouble,
                   archived, running, crashed, refWrites,
                   sampled>>

\* refAtStart keeps the file as it was before the last write, wrote its outcome
Call_escribir_ultima_fecha_backup(timestamp, outcome) ==
    /\ call' = RefCall("escribir_ultima_fecha_backup", refFile, timestamp, outcome)
    /\ result' = <<[raised |-> FALSE, ret |-> None]>>
    /\ refFile' = escribir_ultima_fecha_backup(refFile, timestamp, outcome)
    /\ refAtStart' = refFile
    /\ wrote' = outcome
    /\ UNCHANGED <<now, mtime, config, pc, proc, globalType, lastTs, pending, total,
                   ret, startTs, ranFull, ranInc, trouble, archived, running,
                   crashed, refWrites,
                   sampled>>

NextRef ==
    \/ Call_leer_ultima_fecha_backup
    \/ \E timestamp \in FirstTick..LastTick, outcome \in WriteOutcomes :
          Call_escribir_ultima_fecha_backup(timestamp, outcome)

SpecRef == InitRef /\ [][NextRef]_vars

(***************************************************************************)
(* SpecWalk: listar_contenido_recursivo over every bounded tree            *)
(***************************************************************************)
\* the trees with nodes 1..n: a node lies in the root or in an earlier directory
Trees(n) ==
    {[raiz |-> "dir", nodos |-> 1..n, padre |-> pa, tipo |-> ti, ilegibles |-> il] :
        pa \in [1..n -> 0..n], ti \in [1..n -> {"file", "dir"}],
        il \in SUBSET (0..n)}

WellFormedTree(origen) ==
    /\ \A k \in origen.nodos :
          /\ origen.padre[k] < k
          /\ origen.padre[k] # Raiz => origen.tipo[origen.padre[k]] = "dir"
    /\ \A d \in origen.ilegibles : d = Raiz \/ origen.tipo[d] = "dir"

WalkCall(origen) == [fn |-> "listar_contenido_recursivo", origen |-> origen]

InitWalk ==
    /\ \E n \in 0..MaxNodes :
          \E origen \in {t \in Trees(n) : WellFormedTree(t)} :
              call = WalkCall(origen)
    /\ result = <<>>
    /\ refFile = AbsentFile
    /\ config = MalformedConfig
    /\ RunIdle

Call_listar_contenido_recursivo ==
    /\ call.fn = "listar_contenido_recursivo"
    /\ result = <<>>
    /\ result' = <<listar_contenido_recursivo(call.origen)>>
    /\ UNCHANGED <<call, runVars>>

NextWalk == Call_listar_contenido_recursivo

SpecWalk == InitWalk /\ [][NextWalk]_vars

(***************************************************************************)
(* SpecOrch: one source orchestration applied to every bounded catalogue   *)
(***************************************************************************)
\* files and dirs are the catalogue of the source
OrchCall(fn, origen, st_mtime, ref, statFail, unreadable, dirFail, dest) ==
    [fn |-> fn, nombre |-> <<"n">>, origen |-> origen,
     files |-> listar_contenido_recursivo(origen).archivos,
     dirs |-> AList(listar_contenido_recursivo(origen).carpetas_vacias),
     st_mtime |-> st_mtime, ref |-> ref, statFail |-> statFail,
     env |-> [unreadable |-> unreadable, dirFail |-> dirFail, dest |-> dest,
              stamp |-> 1]]

RootKinds == {"dir", "file", "missing"}

InitOrch ==
    /\ \/ \E n \in 0..MaxCatalog, dest \in DestOutcomes :
            \E u \in SUBSET (1..n) :
               \/ \E mt \in [1..n -> 0..MaxStamp], ref \in 0..MaxStamp,
                     sf \in SUBSET (1..n) :
                       call = OrchCall("ejecutar_backup_incremental",
                                       FlatTree("dir", 1..n, {}), mt, ref, sf, u, {},
                                       dest)
               \/ \E m \in 0..MaxZipDirs :
                    \E df \in SUBSET ((n + 1)..(n + m)) :
                       call = OrchCall("ejecutar_backup_completo",
                                       FlatTree("dir", 1..n, (n + 1)..(n + m)),
                                       [f \in 1..n |-> 0], 0, {}, u, df, dest)
       \/ \E raiz \in RootKinds \ {"dir"}, dest \in DestOutcomes,
             fn \in {"ejecutar_backup_incremental", "ejecutar_backup_completo"},
             ref \in 0..MaxStamp :
               call = OrchCall(fn, FlatTree(raiz, {}, {}), <<>>, ref, {}, {}, {}, dest)
    /\ result = <<>>
    /\ refFile = AbsentFile
    /\ config = MalformedConfig
    /\ RunIdle

Call_ejecutar_backup_incremental ==
    /\ call.fn = "ejecutar_backup_incremental"
    /\ result = <<>>
    /\ result' = <<ejecutar_backup_incremental(call.nombre, call.origen, call.st_mtime,
                                               call.ref, call.statFail, call.env)>>
    /\ UNCHANGED <<call, runVars>>

Call_ejecutar_backup_completo ==
    /\ call.fn = "ejecutar_backup_completo"
    /\ result = <<>>
    /\ result' = <<ejecutar_backup_completo(call.nombre, call.origen, call.env)>>
    /\ UNCHANGED <<call, runVars>>

NextOrch == Call_ejecutar_backup_incremental \/ Call_ejecutar_backup_completo

SpecOrch == InitOrch /\ [][NextOrch]_vars

(***************************************************************************)
(* The run entry points, step by step                                      *)
(***************************************************************************)
BeginHistory ==
    /\ startTs' = now
    /\ refAtStart' = refFile
    /\ wrote' = "none"
    /\ ranFull' = {}
    /\ ranInc' = {}
    /\ trouble' = FALSE
    /\ ret' = 0
    /\ running' = {}
    /\ crashed' = {}
    /\ refWrites' = 0
    /\ sampled' = {}

\* run_incremental_backup_process up to its loop (incremental.py lines 187-217)
IncBegin ==
    /\ pc \in {"idle", "done", "raised"}
    /\ proc' = "incremental"
    /\ globalType' = "incremental"
    /\ BeginHistory
    /\ lastTs' = leer_ultima_fecha_backup(refFile)
    /\ IF fromtimestamp_raises(leer_ultima_fecha_backup(refFile))
       THEN /\ pc' = "raised"
            /\ total' = 0
            /\ pending' = {}
       ELSE IF ~config.dict \/ ~TodasCompletas(config.origenes)
       THEN /\ pc' = "write"
            /\ total' = 1
            /\ pending' = {}
       ELSE /\ pc' = IF config.origenes = <<>> THEN "write" ELSE "sources"
            /\ total' = 0
            /\ pending' = DOMAIN config.origenes
    /\ UNCHANGED <<callVars, now, mtime, refFile, config, archived>>

\* run_full_backup_process up to the submission of its tasks
\* (completo.py lines 242-299)
FullBegin(global_desired_type) ==
    /\ pc \in {"idle", "done", "raised"}
    /\ proc' = "full"
    /\ globalType' = global_desired_type
    /\ BeginHistory
    /\ UNCHANGED lastTs
    /\ IF ~config.dict
       THEN /\ pc' = "write"
            /\ total' = 1
            /\ pending' = {}
       ELSE IF PrimeraSinOrigen(config.origenes)
       THEN /\ pc' = "raised"
            /\ total' = 0
            /\ pending' = {}
       ELSE IF TasksToRun(config.origenes, global_desired_type) = {}
       THEN /\ pc' = "done"
            /\ total' = Cardinality(Incompletas(config.origenes, global_desired_type))
            /\ pending' = {}
       ELSE /\ pc' = "sources"
            /\ total' = Cardinality(Incompletas(config.origenes, global_desired_type))
            /\ pending' = TasksToRun(config.origenes, global_desired_type)
    /\ UNCHANGED <<callVars, now, mtime, refFile, config, archived>>

Versiones(artifact) ==
    IF artifact.finalized
    THEN {<<e[2], mtime[e[2]]>> : e \in {x \in Range(artifact.entries) : x[1] = "file"}}
    ELSE {}

\* an iteration that reads the reference store again instead of using the value
\* read before the loop
IncSource_rereads(i) ==
    /\ pc = "sources"
    /\ proc = "incremental"
    /\ i = Min(pending)
    /\ \E sf \in SUBSET Range(ArchivosDe(OrigenDe(i))),
          u \in SUBSET Range(ArchivosDe(OrigenDe(i))),
          dest \in DestOutcomes :
          LET r == ejecutar_backup_incremental(NombreDe(i), ArbolDe(OrigenDe(i)), mtime,
                       leer_ultima_fecha_backup(refFile),
                       sf, [unreadable |-> u, dirFail |-> {}, dest |-> dest,
                            stamp |-> now])
          IN /\ ranInc' = ranInc \cup {i}
             /\ trouble' = (\/ trouble
                            \/ sf # {}
                            \/ u \cap Range(r.files_to_zip) # {}
                            \/ dest # "ok" /\ r.files_to_zip # <<>>)
             /\ archived' = archived \cup Versiones(r.artifact)
             /\ IF r.raised
                THEN /\ pc' = "raised"
                     /\ UNCHANGED <<total, pending>>
                ELSE /\ total' = total + r.ret
                     /\ pending' = pending \ {i}
                     /\ pc' = IF pending \ {i} = {} THEN "write" ELSE "sources"
    /\ UNCHANGED <<callVars, now, mtime, refFile, config, proc, globalType, lastTs,
                   ret, startTs, refAtStart, wrote, ranFull, running, crashed,
                   refWrites,
                   sampled>>

\* one iteration of the loop of incremental.py lines 204-211
IncSource(i) ==
    /\ pc = "sources"
    /\ proc = "incremental"
    /\ i = Min(pending)
    /\ \E sf \in SUBSET Range(ArchivosDe(OrigenDe(i))),
          u \in SUBSET Range(ArchivosDe(OrigenDe(i))),
          dest \in DestOutcomes :
          LET r == ejecutar_backup_incremental(NombreDe(i), ArbolDe(OrigenDe(i)), mtime, lastTs,
                       sf, [unreadable |-> u, dirFail |-> {}, dest |-> dest,
                            stamp |-> now])
          IN /\ ranInc' = ranInc \cup {i}
             /\ trouble' = (\/ trouble
                            \/ sf # {}
                            \/ u \cap Range(r.files_to_zip) # {}
                            \/ dest # "ok" /\ r.files_to_zip # <<>>)
             /\ archived' = archived \cup Versiones(r.artifact)
             /\ IF r.raised
                THEN /\ pc' = "raised"
                     /\ UNCHANGED <<total, pending>>
                ELSE /\ total' = total + r.ret
                     /\ pending' = pending \ {i}
                     /\ pc' = IF pending \ {i} = {} THEN "write" ELSE "sources"
    /\ UNCHANGED <<callVars, now, mtime, refFile, config, proc, globalType, lastTs,
                   ret, startTs, refAtStart, wrote, ranFull, running, crashed,
                   refWrites,
                   sampled>>

\* completo.py line 40
MAX_WORKERS == 3

\* a pool that starts every submitted task at once
StartTask_unbounded(i) ==
    /\ pc = "sources"
    /\ proc = "full"
    /\ i \in pending \ running
    /\ running' = running \cup {i}
    /\ UNCHANGED <<callVars, now, mtime, refFile, config, pc, proc, globalType, lastTs,
                   pending, total, ret, startTs, refAtStart, wrote, ranFull, ranInc,
                   trouble, archived, crashed, refWrites,
                   sampled>>

\* an idle worker of ThreadPoolExecutor(max_workers=MAX_WORKERS) takes a
\* submitted task (completo.py lines 295-299)
StartTask(i) ==
    /\ pc = "sources"
    /\ proc = "full"
    /\ i \in pending \ running
    /\ Cardinality(running) < MAX_WORKERS
    /\ running' = running \cup {i}
    /\ UNCHANGED <<callVars, now, mtime, refFile, config, pc, proc, globalType, lastTs,
                   pending, total, ret, startTs, refAtStart, wrote, ranFull, ranInc,
                   trouble, archived, crashed, refWrites,
                   sampled>>

\* a dispatcher that lets the exception of a task end the run
FullTask_crash_aborts(i) ==
    /\ pc = "sources"
    /\ proc = "full"
    /\ i \in running
    /\ \E u \in SUBSET Range(ArchivosDe(OrigenDe(i))), dest \in DestOutcomes :
          LET r == ejecutar_backup_completo(NombreDe(i), ArbolDe(OrigenDe(i)),
                       [unreadable |-> u, dirFail |-> {}, dest |-> dest,
                        stamp |-> now])
          IN /\ ranFull' = ranFull \cup {i}
             /\ trouble' = (trouble \/ u # {} \/ dest # "ok")
             /\ archived' = archived \cup Versiones(r.artifact)
             /\ total' = IF r.raised THEN total ELSE total + r.ret
             /\ crashed' = IF r.raised THEN crashed \cup {i} ELSE crashed
             /\ pc' = IF r.raised THEN "raised"
                      ELSE IF pending \ {i} = {} THEN "write" ELSE "sources"
    /\ running' = running \ {i}
    /\ pending' = pending \ {i}
    /\ UNCHANGED <<callVars, now, mtime, refFile, config, proc, globalType, lastTs,
                   ret, startTs, refAtStart, wrote, ranInc, refWrites,
                   sampled>>

\* a running task ends and the as_completed loop collects its result
\* (completo.py lines 301-310); tasks complete in any order
FullTask(i) ==
    /\ pc = "sources"
    /\ proc = "full"
    /\ i \in running
    /\ \E u \in SUBSET Range(ArchivosDe(OrigenDe(i))), dest \in DestOutcomes :
          LET r == ejecutar_backup_completo(NombreDe(i), ArbolDe(OrigenDe(i)),
                       [unreadable |-> u, dirFail |-> {}, dest |-> dest,
                        stamp |-> now])
          IN /\ ranFull' = ranFull \cup {i}
             /\ trouble' = (trouble \/ u # {} \/ dest # "ok")
             /\ archived' = archived \cup Versiones(r.artifact)
             /\ total' = IF r.raised THEN total + 1 ELSE total + r.ret
             /\ crashed' = IF r.raised THEN crashed \cup {i} ELSE crashed
    /\ running' = running \ {i}
    /\ pending' = pending \ {i}
    /\ pc' = IF pending \ {i} = {} THEN "write" ELSE "sources"
    /\ UNCHANGED <<callVars, now, mtime, refFile, config, proc, globalType, lastTs,
                   ret, startTs, refAtStart, wrote, ranInc, refWrites,
                   sampled>>

\* the end of both entry points: escribir_ultima_fecha_backup(time.time()) and
\* the return (incremental.py lines 219-223, completo.py lines 316-320)
WriteReference(outcome) ==
    /\ pc = "write"
    /\ refFile' = escribir_ultima_fecha_backup(refFile, now, outcome)
    /\ wrote' = outcome
    /\ refWrites' = refWrites + 1
    /\ ret' = total
    /\ pc' = "done"
    /\ UNCHANGED <<callVars, now, mtime, config, proc, globalType, lastTs, pending,
                   total, startTs, refAtStart, ranFull, ranInc, trouble, archived,
                   running, crashed, sampled>>

\* the environment: time passes, a source file is modified
Tick ==
    /\ now < LastTick
    /\ now' = now + 1
    /\ UNCHANGED <<callVars, mtime, refFile, config, pc, proc, globalType, lastTs,
                   pending, total, ret, startTs, refAtStart, wrote, ranFull, ranInc,
                   trouble, archived, running, crashed, refWrites,
                   sampled>>

ConfiguredFiles ==
    UNION {Range(ArchivosDe(OrigenDe(i))) : i \in DOMAIN config.origenes}

Modify(f) ==
    /\ f \in ConfiguredFiles
    /\ mtime[f] < now
    /\ mtime' = [mtime EXCEPT ![f] = now]
    /\ UNCHANGED <<callVars, now, refFile, config, pc, proc, globalType, lastTs,
                   pending, total, ret, startTs, refAtStart, wrote, ranFull, ranInc,
                   trouble, archived, running, crashed, refWrites,
                   sampled>>

(***************************************************************************)
(* Spec: runs of one well-formed source (or of a malformed configuration)  *)
(* interleaved with the clock and with modifications of the source's files *)
(***************************************************************************)
GoodEntry == [keys |-> RequiredKeys, tipo |-> "absent"]

Init ==
    /\ call = NoCall
    /\ result = <<>>
    /\ refFile = AbsentFile
    /\ config \in {MalformedConfig, ConfigOf(<<GoodEntry>>)}
    /\ RunIdle

Next ==
    \/ IncBegin
    \/ \E g \in {"full", "incremental"} : FullBegin(g)
    \/ \E i \in 1..MaxSources : IncSource(i)
    \/ \E i \in 1..MaxSources : StartTask(i)
    \/ \E i \in 1..MaxSources : FullTask(i)
    \/ \E outcome \in WriteOutcomes : WriteReference(outcome)
    \/ Tick
    \/ \E f \in Archivos : Modify(f)

Spec == Init /\ [][Next]_vars

(***************************************************************************)
(* SpecCfg: runs over every bounded configuration, the files left alone    *)
(***************************************************************************)
InitCfg ==
    /\ call = NoCall
    /\ result = <<>>
    /\ refFile \in {AbsentFile, StoredFile(PyStr(FirstTick)),
                   StoredFile(<<"i", "n", "f">>)}
    /\ config \in Configs
    /\ RunIdle

NextCfg ==
    \/ IncBegin
    \/ \E g \in {"full", "incremental"} : FullBegin(g)
    \/ \E i \in 1..MaxSources : IncSource(i)
    \/ \E i \in 1..MaxSources : StartTask(i)
    \/ \E i \in 1..MaxSources : FullTask(i)
    \/ \E outcome \in WriteOutcomes : WriteReference(outcome)

SpecCfg == InitCfg /\ [][NextCfg]_vars

(***************************************************************************)
(* SpecPool: one run of the thread-pool dispatcher over up to              *)
(* MaxPoolSources sources;                                                 *)
(* SpecPoolFair adds that a free worker takes a waiting task and that a     *)
(* running orchestration ends                                              *)
(***************************************************************************)
InitPool ==
    /\ call = NoCall
    /\ result = <<>>
    /\ refFile = AbsentFile
    /\ \E n \in 1..MaxPoolSources : config = ConfigOf([k \in 1..n |-> GoodEntry])
    /\ RunIdle

NextPool ==
    \/ pc = "idle" /\ FullBegin("full")
    \/ \E i \in 1..MaxPoolSources : StartTask(i)
    \/ \E i \in 1..MaxPoolSources : FullTask(i)
    \/ \E outcome \in WriteOutcomes : WriteReference(outcome)

SpecPool == InitPool /\ [][NextPool]_vars

SpecPoolFair ==
    /\ InitPool
    /\ [][NextPool]_vars
    /\ WF_vars(\E i \in 1..MaxPoolSources : StartTask(i))
    /\ WF_vars(\E i \in 1..MaxPoolSources : FullTask(i))

(***************************************************************************)
(* SpecShared: one incremental run over every configured source while      *)
(* other processes that share last_backup_date.txt store their reference   *)
(***************************************************************************)
\* another process (a concurrent run, a task worker) executes
\* escribir_ultima_fecha_backup(time.time()); nothing locks the file
OtherProcessWrites ==
    /\ refFile' = escribir_ultima_fecha_backup(refFile, now, "ok")
    /\ UNCHANGED <<callVars, now, mtime, config, pc, proc, globalType, lastTs,
                   pending, total, ret, startTs, refAtStart, wrote, ranFull, ranInc,
                   trouble, archived, running, crashed, refWrites, sampled>>

InitShared ==
    /\ call = NoCall
    /\ result = <<>>
    /\ refFile \in {AbsentFile, StoredFile(PyStr(FirstTick))}
    /\ config = ConfigOf([k \in 1..MaxSources |-> GoodEntry])
    /\ RunIdle

NextShared ==
    \/ pc = "idle" /\ IncBegin
    \/ \E i \in 1..MaxSources : IncSource(i)
    \/ \E outcome \in WriteOutcomes : WriteReference(outcome)
    \/ OtherProcessWrites
    \/ Tick
    \/ \E f \in Archivos : Modify(f)

SpecShared == InitShared /\ [][NextShared]_vars

(***************************************************************************)
(* SpecTasks: the task-queue variant (tasks.py); one task per source has   *)
(* been submitted, workers run them in any order                           *)
(***************************************************************************)
InitTasks ==
    /\ call = NoCall
    /\ result = <<>>
    /\ refFile = AbsentFile
    /\ \E n \in 1..MaxSources :
          /\ config = ConfigOf([k \in 1..n |-> GoodEntry])
          /\ pending = 1..n
    /\ proc \in {"full_backup_task", "incremental_backup_task"}
    /\ pc = "sources"
    /\ now = FirstTick
    /\ mtime = [f \in Archivos |-> FirstTick]
    /\ globalType = "none"
    /\ lastTs = 0
    /\ total = 0
    /\ ret = 0
    /\ startTs = FirstTick
    /\ refAtStart = AbsentFile
    /\ wrote = "none"
    /\ ranFull = {}
    /\ ranInc = {}
    /\ trouble = FALSE
    /\ archived = {}
    /\ running = {}
    /\ crashed = {}
    /\ refWrites = 0
    /\ sampled = {}

\* the tasks that evaluated the argument of their reference write
Sampling == {s.task : s \in sampled}

\* a task up to the evaluation of time.time() in the argument of its reference
\* write (tasks.py lines 161 and 192); a task that raised ends without writing
TaskSamples(i, raised, errors) ==
    IF raised
    THEN /\ crashed' = crashed \cup {i}
         /\ pending' = pending \ {i}
         /\ pc' = IF pending \ {i} = {} THEN "done" ELSE "sources"
         /\ UNCHANGED sampled
    ELSE /\ sampled' = sampled \cup {[task |-> i, timestamp |-> now, errors |-> errors]}
         /\ UNCHANGED <<crashed, pending, pc>>

\* the body of escribir_ultima_fecha_backup in a task's worker and the task's
\* return (tasks.py lines 135-141, 163 and 194)
TaskWrites(i, outcome) ==
    /\ pc = "sources"
    /\ \E s \in sampled :
          /\ s.task = i
          /\ refFile' = escribir_ultima_fecha_backup(refFile, s.timestamp, outcome)
          /\ total' = total + s.errors
          /\ ret' = total + s.errors
          /\ sampled' = sampled \ {s}
    /\ wrote' = outcome
    /\ refWrites' = refWrites + 1
    /\ pending' = pending \ {i}
    /\ pc' = IF pending \ {i} = {} THEN "done" ELSE "sources"
    /\ UNCHANGED <<callVars, now, mtime, config, proc, globalType, lastTs, startTs,
                   refAtStart, ranFull, ranInc, trouble, archived, running, crashed>>

\* tasks.py lines 145-161
full_backup_task(i) ==
    /\ pc = "sources"
    /\ proc = "full_backup_task"
    /\ i \in pending \ Sampling
    /\ \E u \in SUBSET Range(ArchivosDe(OrigenDe(i))), dest \in DestOutcomes :
          LET r == crear_zip_completo(NombreDe(i), ArchivosDe(OrigenDe(i)),
                       AList(CarpetasVaciasDe(OrigenDe(i))),
                       [unreadable |-> u, dirFail |-> {}, dest |-> dest,
                        stamp |-> now])
          IN /\ ranFull' = ranFull \cup {i}
             /\ trouble' = (trouble \/ u # {} \/ dest # "ok")
             /\ archived' = archived \cup Versiones(r.artifact)
             /\ TaskSamples(i, r.raised, IF r.raised THEN 0 ELSE r.ret)
    /\ UNCHANGED <<callVars, now, mtime, refFile, config, proc, globalType, lastTs,
                   total, ret, startTs, refAtStart, wrote, ranInc, running,
                   refWrites>>

\* tasks.py lines 165-192; lastTs is the last_backup_timestamp argument
incremental_backup_task(i) ==
    /\ pc = "sources"
    /\ proc = "incremental_backup_task"
    /\ i \in pending \ Sampling
    /\ \E sf \in SUBSET Range(ArchivosDe(OrigenDe(i))),
          u \in SUBSET Range(ArchivosDe(OrigenDe(i))),
          dest \in DestOutcomes :
          LET c == Clasificar(ArchivosDe(OrigenDe(i)), mtime, sf, lastTs)
              z == tasks_crear_zip_incremental(NombreDe(i), c.files_to_zip,
                       [unreadable |-> u, dirFail |-> {}, dest |-> dest,
                        stamp |-> now])
          IN /\ ranInc' = ranInc \cup {i}
             /\ trouble' = (\/ trouble
                            \/ sf # {}
                            \/ u \cap Range(c.files_to_zip) # {}
                            \/ dest # "ok" /\ c.files_to_zip # <<>>)
             /\ archived' = archived \cup Versiones(z.artifact)
             /\ TaskSamples(i, z.raised, c.archivos_error)
    /\ UNCHANGED <<callVars, now, mtime, refFile, config, proc, globalType, lastTs,
                   total, ret, startTs, refAtStart, wrote, ranFull, running,
                   refWrites>>

NextTasks ==
    \/ \E i \in 1..MaxSources : full_backup_task(i)
    \/ \E i \in 1..MaxSources : incremental_backup_task(i)
    \/ \E i \in 1..MaxSources, outcome \in WriteOutcomes : TaskWrites(i, outcome)
    \/ Tick
    \/ \E f \in Archivos : Modify(f)

SpecTasks == InitTasks /\ [][NextTasks]_vars

(***************************************************************************)
(* Properties                                                              *)
(***************************************************************************)
Returned == result # <<>>

Res == result[1]

ReadableFiles == Range(call.files) \ call.statFail

\* C1: in an incremental run a catalogued file whose metadata can be read is in
\* the list handed to the archive writer iff its mtime is strictly greater than
\* the reference timestamp passed to the run
C1_ChangedIffStrictlyNewer ==
    (Returned /\ call.fn = "ejecutar_backup_incremental") =>
        \A f \in ReadableFiles :
            (f \in Range(Res.files_to_zip)) <=> (call.st_mtime[f] > call.ref)

\* a run that skips a file whose mtime equals the reference and lists a newer one
C1_Witness ==
    /\ Returned
    /\ call.fn = "ejecutar_backup_incremental"
    /\ \E f, g \in ReadableFiles :
          /\ call.st_mtime[f] = call.ref
          /\ f \notin Range(Res.files_to_zip)
          /\ call.st_mtime[g] > call.ref
          /\ g \in Range(Res.files_to_zip)

\* the step in which a clean incremental run stores its reference
CleanIncrementalWrite ==
    /\ pc = "write"
    /\ pc' = "done"
    /\ proc = "incremental"
    /\ wrote' = "ok"
    /\ ret' = 0
    /\ ~trouble

\* C2: the stored reference is a sound watermark: when an incremental run stores
\* it, every source file whose modification time is at or before the stored
\* reference is in some archive with that modification
C2_WatermarkSound ==
    [][CleanIncrementalWrite =>
          \A f \in ConfiguredFiles :
              mtime'[f] <= leer_ultima_fecha_backup(refFile') =>
                  <<f, mtime'[f]>> \in archived']_vars

\* C3: a run that returns a non-zero error count leaves the stored reference
\* unchanged
C3_FailedRunKeepsReference ==
    (pc = "done" /\ ret # 0) => refFile = refAtStart

SuccessfulRun ==
    /\ pc = "done"
    /\ ret = 0
    /\ proc = "incremental" \/ (proc = "full" /\ ranFull # {})

\* C4 as stated: after any successful run the stored reference reads as a value
\* at or after the instant the run started
C4_Original ==
    SuccessfulRun => leer_ultima_fecha_backup(refFile) >= startTs

\* C4 amended: after a successful run whose reference write succeeded the
\* stored reference reads as a value at or after the instant the run started
C4_ReferenceNotBeforeStart ==
    (SuccessfulRun /\ wrote = "ok") => leer_ultima_fecha_backup(refFile) >= startTs

\* a second, incremental run during which the clock advanced
C4_Witness ==
    /\ SuccessfulRun
    /\ wrote = "ok"
    /\ proc = "incremental"
    /\ refAtStart.st = "present"
    /\ leer_ultima_fecha_backup(refAtStart) < startTs
    /\ leer_ultima_fecha_backup(refFile) > startTs

\* C5: the entry points never propagate an exception and return an integer
C5_NeverRaises ==
    /\ pc # "raised"
    /\ pc = "done" => ret \in Nat

EntryOf(i) == config.origenes[i]

\* the well-formed entries the run's mode selects
Selected(i) ==
    /\ EntradaCompleta(EntryOf(i))
    /\ proc = "full" => should_run_full_for_origin(EntryOf(i), globalType)

\* C6: in a run that returns, an entry missing a required field is not run and
\* every other well-formed entry of the configuration is
C6_OthersStillBackedUp ==
    (pc = "done" /\ config.dict) =>
        \A i \in DOMAIN config.origenes :
            /\ ~EntradaCompleta(EntryOf(i)) => i \notin ranFull \cup ranInc
            /\ Selected(i) => i \in ranFull \cup ranInc

\* C7 as stated: the override takes precedence over the global mode
C7_Original ==
    (pc = "done" /\ proc = "full" /\ config.dict) =>
        \A i \in DOMAIN config.origenes :
            EntradaCompleta(EntryOf(i)) =>
                /\ EntryOf(i).tipo = "true" => i \in ranFull
                /\ EntryOf(i).tipo = "false" => i \notin ranFull
                /\ EntryOf(i).tipo \in {"absent", "other"} =>
                      (i \in ranFull <=> globalType = "full")

\* C7 amended: the global mode gates the override: an entry is run as full only
\* when the global mode is "full" and its override is not False, and in a run
\* of run_full_backup_process that returns, every well-formed entry for which
\* that holds has been run as full
C7_GlobalModeGatesOverride ==
    /\ \A i \in ranFull :
          /\ proc = "full"
          /\ globalType = "full"
          /\ EntryOf(i).tipo # "false"
          /\ EntradaCompleta(EntryOf(i))
    /\ (pc = "done" /\ proc = "full" /\ config.dict) =>
          \A i \in DOMAIN config.origenes :
              EntradaCompleta(EntryOf(i)) =>
                  (i \in ranFull <=>
                      (globalType = "full" /\ EntryOf(i).tipo # "false"))

\* a full run that ran an entry forced to full and left out an excluded one
C7_Witness ==
    /\ pc = "done"
    /\ proc = "full"
    /\ globalType = "full"
    /\ \E i, j \in DOMAIN config.origenes :
          /\ EntryOf(i).tipo = "true"
          /\ i \in ranFull
          /\ EntryOf(j).tipo = "false"
          /\ EntradaCompleta(EntryOf(j))
          /\ j \notin ranFull

GivenDirs == IF call.dirs = NoList THEN <<>> ELSE call.dirs[1]

\* C8: when the archive opens and finalizes, crear_zip_completo returns one
\* error per file that is missing or unreadable when added, and the finalized
\* archive holds every other file and every empty directory exactly once
C8_PerEntryIsolation ==
    (/\ Returned
     /\ call.fn = "crear_zip_completo"
     /\ call.env.dest = "ok"
     /\ call.env.dirFail = {}
     /\ call.files # <<>> \/ GivenDirs # <<>>) =>
        /\ ~Res.raised
        /\ Res.ret = Cardinality(call.env.unreadable)
        /\ Res.artifact.finalized
        /\ Range(Res.artifact.entries) =
              {FileEntry(f) : f \in Range(call.files) \ call.env.unreadable}
                  \cup {DirEntry(d) : d \in Range(GivenDirs)}
        /\ Len(Res.artifact.entries) =
              Len(call.files) - Cardinality(call.env.unreadable) + Len(GivenDirs)

\* five input files of which the second vanishes: 1 error, four entries
C8_Witness ==
    /\ Returned
    /\ call.fn = "crear_zip_completo"
    /\ call.env.dest = "ok"
    /\ Len(call.files) = 5
    /\ call.env.unreadable = {2}
    /\ Res.ret = 1
    /\ Len(Res.artifact.entries) = 4 + Len(GivenDirs)

\* C9: in ejecutar_backup_incremental a changed file that is missing or
\* unreadable when it is added is counted in the returned error count, and
\* every other changed file is in the archive
C9_LostFileCountedOthersAdded ==
    (/\ Returned
     /\ call.fn = "ejecutar_backup_incremental"
     /\ call.env.dest = "ok") =>
        LET lost == Range(Res.files_to_zip) \cap call.env.unreadable
        IN  /\ ~Res.raised
            /\ Res.ret = Cardinality(call.statFail) + Cardinality(lost)
            /\ \A f \in Range(Res.files_to_zip) \ lost :
                  FileEntry(f) \in Range(Res.artifact.entries)

\* C10: when opening or finalizing the archive fails, crear_zip_completo does
\* not raise and returns len(files_to_zip) plus the number of empty directories
C10_AllIntendedCounted ==
    (/\ Returned
     /\ call.fn = "crear_zip_completo"
     /\ call.env.dest \in {"open_fails", "close_fails"}
     /\ call.files # <<>> \/ GivenDirs # <<>>) =>
        /\ ~Res.raised
        /\ Res.ret = Len(call.files) + Len(GivenDirs)

IsWriterCall == call.fn \in {"crear_zip_completo", "crear_zip_incremental"}

\* C11: no archive is created empty: after a call of crear_zip_completo or
\* crear_zip_incremental the destination holds no archive with zero entries
C11_NeverCreatedEmpty ==
    (Returned /\ IsWriterCall) =>
        ~(Res.artifact.name # <<>> /\ Res.artifact.entries = <<>>)

\* the call returned the integer n; crear_zip_incremental has no return value,
\* its caller receives None
ReturnsCount(n) ==
    IF call.fn = "crear_zip_incremental" THEN Res.ret # None /\ Res.ret = n
    ELSE Res.ret = n

\* C12: called with an empty file list and an empty or absent empty-directory
\* list, either archive writer creates no artifact, does not create the
\* destination directory and returns 0
C12_EmptyInputLaw ==
    (Returned /\ IsWriterCall /\ call.files = <<>> /\ GivenDirs = <<>>) =>
        /\ ~Res.raised
        /\ Res.artifact = NoArtifact
        /\ ~Res.mkdir
        /\ ReturnsCount(0)

\* a text of the shape DD-MM-YYYY_HH-MM
EsFechaHora(t) ==
    /\ Len(t) = 16
    /\ \A k \in 1..16 :
          IF k \in {3, 6, 14} THEN t[k] = "-"
          ELSE IF k = 11 THEN t[k] = "_"
          ELSE IsDigit(t[k])

\* the artifact is named prefijo_base_DD-MM-YYYY_HH-MM.zip, the hour and the
\* minute being those of the moment of the call
NamedWith(prefijo) ==
    LET name == Res.artifact.name
        desde == Len(prefijo) + Len(call.nombre) + 3
        t == SubSeq(name, desde, Len(name) - 4)
    IN  /\ Len(name) = desde + 19
        /\ name = zip_filename(prefijo, call.nombre, t)
        /\ EsFechaHora(t)
        /\ DecimalValue(SubSeq(t, 12, 13), 0) = (call.env.stamp \div 60) % 24
        /\ DecimalValue(SubSeq(t, 15, 16), 0) = call.env.stamp % 60

\* C13 as stated: every artifact is named {PREFIX}_{base_name}_{DD-MM-YYYY_HH-MM}.zip
\* with PREFIX FULL for a full backup and INC for an incremental one
C13_Original ==
    (Returned /\ IsWriterCall /\ Res.artifact.name # <<>>) =>
        IF call.fn = "crear_zip_completo" THEN NamedWith(<<"F", "U", "L", "L">>)
        ELSE NamedWith(<<"I", "N", "C">>)

\* C13 amended: every artifact is named {PREFIX}_{base_name}_{DD-MM-YYYY_HH-MM}.zip
\* with PREFIX COM for a full backup and INC for an incremental one
C13_PrefixComOrInc ==
    (Returned /\ IsWriterCall /\ Res.artifact.name # <<>>) =>
        IF call.fn = "crear_zip_completo" THEN NamedWith(<<"C", "O", "M">>)
        ELSE NamedWith(<<"I", "N", "C">>)

\* a full archive written at 01:15
C13_Witness ==
    /\ Returned
    /\ call.fn = "crear_zip_completo"
    /\ Res.artifact.finalized
    /\ call.env.stamp = 75
    /\ SubSeq(Res.artifact.name, 1, 4) = <<"C", "O", "M", "_">>

LeerReturned == Returned /\ call.fn = "leer_ultima_fecha_backup"

\* C14: leer_ultima_fecha_backup does not raise; it returns 0.0 when the file
\* is absent, unreadable, empty or holds text that is not a float, and the
\* stored float otherwise
C14_ReadDefaultsToZero ==
    LeerReturned =>
        /\ ~Res.raised
        /\ call.file.st # "present" => Res.ret = 0
        /\ (\A k \in DOMAIN call.file.text : call.file.text[k] = " ") => Res.ret = 0
        /\ (\E k \in DOMAIN call.file.text : call.file.text[k] = "x") => Res.ret = 0
        /\ (\E j, k, l \in DOMAIN call.file.text :
                /\ j < k /\ k < l
                /\ call.file.text[j] # " "
                /\ call.file.text[k] = " "
                /\ call.file.text[l] # " ") => Res.ret = 0
        /\ \A n \in 0..LastTick :
              call.file \in {StoredFile(PyStr(n)), StoredFile(PyStr(n) \o <<" ">>),
                             StoredFile(<<" ">> \o PyStr(n))} => Res.ret = n
        /\ call.file = StoredFile(<<"i", "n", "f">>) => Res.ret > LastTick

\* a timestamp the program wrote is read back, and a corrupt text reads as 0
C14_Witness ==
    /\ LeerReturned
    /\ \/ call.file = StoredFile(PyStr(LastTick)) /\ Res.ret = LastTick
       \/ call.file = StoredFile(<<"1", "x">>) /\ Res.ret = 0

\* C15: escribir_ultima_fecha_backup does not raise, and after a write that
\* failed the next leer_ultima_fecha_backup returns at most the value that was
\* stored before that write
C15_FailedWriteOnlyWidens ==
    /\ (Returned /\ call.fn = "escribir_ultima_fecha_backup") => ~Res.raised
    /\ (LeerReturned /\ wrote \in {"open_fails", "write_fails"}) =>
          Res.ret <= leer_ultima_fecha_backup(refAtStart)

\* a read that follows a failed write over a stored timestamp
C15_Witness ==
    /\ LeerReturned
    /\ wrote \in {"open_fails", "write_fails"}
    /\ leer_ultima_fecha_backup(refAtStart) = FirstTick
    /\ Res.ret <= FirstTick

\* C16: in run_full_backup_process a source orchestration that raises adds
\* exactly one to the aggregate error count and does not end the run: the
\* result of every other submitted orchestration is still collected, in any
\* completion order
C16_CrashCountsOneOthersCollected ==
    [][/\ \A i \in crashed' \ crashed :
            /\ total' = total + 1
            /\ pending' = pending \ {i}
            /\ pc' \in {"sources", "write"}
       /\ (pc' = "write" /\ proc' = "full") =>
            ranFull' = TasksToRun(config'.origenes, globalType')]_vars

\* a finished run in which an orchestration raised before another one, whose
\* result was collected, returned without error
C16_Witness ==
    /\ pc = "done"
    /\ proc = "full"
    /\ crashed # {}
    /\ ranFull \ crashed # {}
    /\ ret = Cardinality(crashed)

\* C17: during a run of run_full_backup_process at most MAX_WORKERS source
\* orchestrations execute at the same time, and every submitted source is
\* eventually executed
C17_BoundedPoolRunsAll ==
    /\ [](Cardinality(running) <= MAX_WORKERS)
    /\ (pc = "sources") ~> (pc = "write" /\ ranFull = DOMAIN config.origenes)

\* three orchestrations executing while a fourth submitted source waits
C17_Witness ==
    /\ pc = "sources"
    /\ Cardinality(running) = MAX_WORKERS
    /\ pending \ running # {}

\* C18: a source orchestration does not update the reference store: in one
\* overall run the reference is written at most once, and only when no
\* source orchestration of the run is left to complete
C18_SingleReferenceWrite ==
    /\ refWrites <= 1
    /\ refWrites = 1 => pending = {}

WalkReturned == Returned /\ call.fn = "listar_contenido_recursivo"

\* every directory above k, the root included, can be listed
RECURSIVE Alcanzable(_, _)
Alcanzable(origen, k) ==
    IF k = Raiz THEN Raiz \notin origen.ilegibles
    ELSE /\ origen.padre[k] \notin origen.ilegibles
         /\ Alcanzable(origen, origen.padre[k])

FilesOf(origen) == {k \in origen.nodos : origen.tipo[k] = "file"}

EmptyDirsOf(origen) ==
    {k \in origen.nodos : origen.tipo[k] = "dir" /\ Hijos(origen, k) = {}}

\* C19 as stated: for every tree under a valid root, every regular file is
\* returned exactly once, every directory with no file and no subdirectory
\* exactly once, and the root is never returned as an empty directory
C19_Original ==
    WalkReturned =>
        /\ \A f \in FilesOf(call.origen) : Count(Res.archivos, f) = 1
        /\ \A d \in EmptyDirsOf(call.origen) : Count(Res.carpetas_vacias, d) = 1
        /\ Count(Res.carpetas_vacias, Raiz) = 0

\* C19 amended: a regular file is returned exactly once when every directory
\* above it can be listed and is omitted otherwise; a directory below the
\* root is returned exactly once when it has no file and no subdirectory and
\* it and every directory above it can be listed, and is not returned
\* otherwise; the root is never returned
C19_ListableTreeEnumeratedOnce ==
    WalkReturned =>
        /\ \A f \in FilesOf(call.origen) :
              Count(Res.archivos, f) = IF Alcanzable(call.origen, f) THEN 1 ELSE 0
        /\ Range(Res.archivos) \subseteq FilesOf(call.origen)
        /\ \A d \in EmptyDirsOf(call.origen) :
              Count(Res.carpetas_vacias, d) =
                  IF Alcanzable(call.origen, d) /\ d \notin call.origen.ilegibles
                  THEN 1 ELSE 0
        /\ Range(Res.carpetas_vacias) \subseteq EmptyDirsOf(call.origen)
        /\ Count(Res.carpetas_vacias, Raiz) = 0

\* a listable tree with a file in a subdirectory and an empty directory next
\* to it, both returned
C19_Witness ==
    /\ WalkReturned
    /\ call.origen.ilegibles = {}
    /\ \E f \in FilesOf(call.origen) :
          /\ call.origen.padre[f] # Raiz
          /\ f \in Range(Res.archivos)
    /\ Res.carpetas_vacias # <<>>

OrchReturned ==
    /\ Returned
    /\ call.fn \in {"ejecutar_backup_incremental", "ejecutar_backup_completo"}

\* C20: when the source root is missing, is not a directory or holds nothing,
\* the orchestration hands empty lists to the archive writer, creates no
\* artifact and returns an error count of 0
C20_EmptyOrInvalidRoot ==
    (OrchReturned /\ (call.origen.raiz # "dir" \/ call.origen.nodos = {})) =>
        /\ ~Res.raised
        /\ Res.files_to_zip = <<>>
        /\ Res.artifact = NoArtifact
        /\ Res.ret = 0

\* a full backup of a missing root whose destination cannot be created either
C20_Witness ==
    /\ OrchReturned
    /\ call.fn = "ejecutar_backup_completo"
    /\ call.origen.raiz = "missing"
    /\ call.env.dest = "mkdir_fails"
    /\ Res.ret = 0
    /\ Res.artifact = NoArtifact

\* C21: for a full backup whose archive opens and finalizes, the number of
\* entries of the archive equals the catalogued files plus the catalogued empty
\* directories minus the error count ejecutar_backup_completo returns
C21_EntriesPlusErrorsIsCatalogue ==
    (Returned /\ call.fn = "ejecutar_backup_completo" /\ call.env.dest = "ok") =>
        Len(Res.artifact.entries) = Len(call.files) + Len(GivenDirs) - Res.ret

\* a full backup in which a file and an empty directory failed and a file went in
C21_Witness ==
    /\ Returned
    /\ call.fn = "ejecutar_backup_completo"
    /\ call.env.dest = "ok"
    /\ call.env.unreadable # {}
    /\ call.env.dirFail # {}
    /\ Res.artifact.entries # <<>>
    /\ Res.ret = 2

\* C22: against a reference timestamp of 0.0 an incremental run classifies
\* every catalogued file whose metadata can be read as changed, whatever its
\* modification time
C22_ZeroReferenceTakesAll ==
    (Returned /\ call.fn = "ejecutar_backup_incremental" /\ call.ref = 0) =>
        \A f \in ReadableFiles : f \in Range(Res.files_to_zip)

\* C30: in ejecutar_backup_incremental every catalogued file is counted once,
\* as new/modified, unchanged or error, and the list handed to the archive
\* writer holds the files counted new/modified, each once
C30_EveryFileCountedOnce ==
    (Returned /\ call.fn = "ejecutar_backup_incremental") =>
        /\ Res.archivos_modificados_o_nuevos + Res.archivos_sin_cambios + Res.ret
              = Len(call.files)
        /\ Len(Res.files_to_zip) = Res.archivos_modificados_o_nuevos
        /\ \A f \in Range(Res.files_to_zip) :
              /\ Count(Res.files_to_zip, f) = 1
              /\ f \in Range(call.files)
        /\ Res.ret = Cardinality(call.statFail)

\* a catalogue with a file of each kind: one cannot be read, one is newer
\* than the reference
C30_Witness ==
    /\ Returned
    /\ call.fn = "ejecutar_backup_incremental"
    /\ Res.ret = 1
    /\ Res.archivos_modificados_o_nuevos = 1
    /\ Len(call.files) = 2

\* C24: in every run of run_full_backup_process with a well-formed top-level
\* configuration the returned count is the number of rejected entries plus the
\* error counts of the orchestrations plus the orchestrations that raised,
\* also when no entry is runnable
C24_ReturnIsRejectedPlusTaskErrors ==
    (pc = "done" /\ proc = "full" /\ config.dict) =>
        /\ ret = total
        /\ ranFull = {} =>
              ret = Cardinality(Incompletas(config.origenes, globalType))

\* C27: whatever fails, crear_zip_completo returns at most the number of
\* files plus the number of empty directories it was given
C27_CountBoundedByInput ==
    (Returned /\ call.fn = "crear_zip_completo") =>
        Res.ret <= Len(call.files) + Len(GivenDirs)

\* C28: in the task-queue variant the stored reference never decreases from
\* one write to the next, however the tasks interleave
C28_ReferenceNeverDecreases ==
    [][(refWrites' = refWrites + 1 /\ wrote' = "ok") =>
          leer_ultima_fecha_backup(refFile') >= leer_ultima_fecha_backup(refFile)]_vars

\* the files of the source the loop is at that are newer than the reference
\* file as it was when the run started
NewerThanSnapshot ==
    {f \in Range(ArchivosDe(OrigenDe(Min(pending)))) :
        mtime[f] > leer_ultima_fecha_backup(refAtStart)}

\* C23: an incremental run reads the reference store once, before any source
\* is processed, and classifies every source against that value even when the
\* stored value is overwritten during the run: a source processed without
\* failure archives exactly its files newer than the reference read at the start
C23_ClassifiedAgainstSnapshot ==
    [][(pc = "sources" /\ proc = "incremental" /\ ranInc' # ranInc /\ ~trouble') =>
          /\ lastTs = leer_ultima_fecha_backup(refAtStart)
          /\ lastTs' = lastTs
          /\ archived' = archived \cup {<<f, mtime[f]>> : f \in NewerThanSnapshot}]_vars

\* a run over two sources during which another process stored a later
\* reference, and that archived a file that is not newer than the stored value
C23_Witness ==
    /\ pc = "write"
    /\ proc = "incremental"
    /\ ~trouble
    /\ ranInc = {1, 2}
    /\ refFile # refAtStart
    /\ refAtStart.st = "present"
    /\ \E v \in archived :
          /\ v[2] > leer_ultima_fecha_backup(refAtStart)
          /\ v[2] <= leer_ultima_fecha_backup(refFile)

\* both calls of SpecMinute returned and each opened an archive
BothWroteAnArchive ==
    /\ Len(result) = 2
    /\ result[1].res.artifact # NoArtifact
    /\ result[2].res.artifact # NoArtifact

SameMinute == MinutoDe(call.ops[1].segundos) = MinutoDe(call.ops[2].segundos)

\* C26: two archive operations with the same prefix, base name and destination
\* within the same clock minute target the same path; the second overwrites the
\* first without raising, and the destination holds exactly one artifact,
\* whose content is the second's
C26_SameMinuteOverwrites ==
    (BothWroteAnArchive /\ SameMinute) =>
        /\ result[1].res.artifact.name = result[2].res.artifact.name
        /\ ~result[2].res.raised
        /\ result[2].destino = {result[2].res.artifact}
        /\ \A a \in result[2].destino :
              a.entries = result[2].res.artifact.entries

\* two calls at different seconds of one minute; the first archive held a file
\* the second does not hold
C26_Witness ==
    /\ BothWroteAnArchive
    /\ SameMinute
    /\ call.ops[1].segundos < call.ops[2].segundos
    /\ result[1].destino = {result[1].res.artifact}
    /\ result[2].res.artifact.finalized
    /\ Range(result[1].res.artifact.entries)
          \ Range(result[2].res.artifact.entries) # {}

\* the files of a metadata-mode call whose os.stat succeeds
StatOk == Range(call.archivos) \ call.fs.statFail

Registro(index, f) == obtener_info_archivo(index, f)

\* the recorded date or size of f differs from the file's
MetadatosCambiaron(index, f) ==
    \/ Registro(index, f)[1][2] # call.fs.st_mtime[f]
    \/ Registro(index, f)[1][3] # call.fs.st_size[f]

HashCambio(index, f) == Registro(index, f)[1][4] # call.fs.contenido[f]

FilaActual(f) == <<f, call.fs.st_mtime[f], call.fs.st_size[f], call.fs.contenido[f]>>

\* the files a run over the index must count as new or modified
NuevosOModificados(index) ==
    {f \in StatOk \ call.fs.hashFail :
        \/ Registro(index, f) = <<>>
        \/ Registro(index, f) # <<>> /\ MetadatosCambiaron(index, f)
              /\ HashCambio(index, f)}

C29_SecondRunIdle ==
    (/\ Len(result) = 2
     /\ call.fn = "main_ejecutar_backup_incremental"
     /\ call.fs.statFail = {}
     /\ call.fs.hashFail = {}) =>
        /\ result[2].hashed = {}
        /\ result[2].archivos_modificados_o_nuevos = 0
        /\ result[2].index = result[1].index

====
